---- MODULE Spec2Model ----
(***************************************************************************)
(* Ingestion-and-progress pipeline of the Educational RAG Platform.        *)
(*                                                                         *)
(* The model follows main.py (the FastAPI handlers, the process-wide       *)
(* progress_store and the background task) and src/document_processor.py   *)
(* (DocumentProcessor.process_document, the processor main.py imports).    *)
(*                                                                         *)
(* Scheduling: all handlers and background tasks are coroutines of one     *)
(* asyncio event loop.  A coroutine runs without interruption until it     *)
(* awaits; `cur` names the background task that holds the loop (0: none).  *)
(* The only awaits of the ingestion task that suspend are the two          *)
(* asyncio.sleep calls of the batch loop, and a task scheduled with        *)
(* BackgroundTasks.add_task starts after the upload response was sent.     *)
(*                                                                         *)
(* Persistence: a Job row is held by the SQLAlchemy session of the task.   *)
(* Committing a change of a row that another session deleted matches zero  *)
(* rows and raises (StaleDataError).  The commit of the task's result may  *)
(* also fail for a reason of the database (connection lost, database       *)
(* locked); the other commits are taken to succeed.                        *)
(* Job identifiers are never reused.                                       *)
(*                                                                         *)
(* Index configuration: DocumentProcessor.__init__ leaves vectorstore and  *)
(* embeddings unset ("temporarily" disabled); the batch loop is written    *)
(* for a processor whose index is configured, so Init admits both.         *)
(*                                                                         *)
(* Processor classes: `processor` names the class behind                   *)
(* document_processor.  Beside the DocumentProcessor of src/ the model     *)
(* holds the DocumentProcessor of backend/src (its own batch loop, index   *)
(* always configured) and SimpleDocumentProcessor (one progress callback,  *)
(* no index); SpecVariants and SpecSimple run the service with them.       *)
(***************************************************************************)
EXTENDS Integers, Sequences, FiniteSets, TLC

\* ---------------------------------------------------------------- bounds
MaxJobs == 2
MaxChunks == 6
MaxEvents == 2
MaxDocs == 2

\* ------------------------------------------------------------- constants
batch_size == 5
max_retries == 2
max_size == 10 * 1024 * 1024
allowed_types == {"pdf", "docx", "doc", "txt", "csv", "xlsx"}

JobIds == 1..MaxJobs
\* chunk counts the splitter may return: none, one full batch, and the
\* largest count, which needs more than one batch
ChunkCounts == {0, batch_size, MaxChunks}
Extensions == {"pdf", "TXT", "exe"}
Sizes == {0, max_size, max_size + 1}

\* str.lower() on the extensions of the model
Lower(ext) == IF ext = "TXT" THEN "txt" ELSE ext

\* batch_size and max_retries of backend/src/document_processor.py
backend_batch_size == 10
backend_max_retries == 3

\* ------------------------------------------------------------ vector ids
\* str() of a natural number: its decimal digits
Digits == <<"0", "1", "2", "3", "4", "5", "6", "7", "8", "9">>

RECURSIVE str(_)
str(n) == IF n < 10 THEN <<Digits[n + 1]>>
          ELSE str(n \div 10) \o <<Digits[(n % 10) + 1]>>

\* f"{doc_id}_{j}": a vector id is a text
vector_id(doc_id, j) == str(doc_id) \o <<"_">> \o str(j)

\* the largest chunk ordinal of a run
MaxOrdinal == backend_batch_size + MaxChunks

\* the vector ids process_document makes for a Job
ids_of(j) == {vector_id(j, k) : k \in 0..MaxOrdinal}

\* int() of a text of decimal digits
RECURSIVE int(_)
int(text) ==
  IF text = <<>> THEN 0
  ELSE int(SubSeq(text, 1, Len(text) - 1)) * 10
         + (CHOOSE d \in 0..9 : Digits[d + 1] = text[Len(text)])

\* the chunk ordinal a vector id was made from: the number after the "_"
ordinal(id) ==
  LET p == CHOOSE i \in 1..Len(id) : id[i] = "_"
  IN int(SubSeq(id, p + 1, Len(id)))

\* ----------------------------------------------------------------- state
VARIABLES
  db,                 \* documents table: id -> row (exists = FALSE: no row)
  nextId,             \* next primary key handed out by the database
  progress_store,     \* main.progress_store: id -> progress record
  progress_callbacks, \* DocumentProcessor.progress_callbacks (its keys)
  vectorstore,        \* DocumentProcessor.vectorstore is set (truthy)
  embeddings,         \* DocumentProcessor.embeddings is set (truthy)
  index,              \* vector ids stored in the index by add_documents
  task,               \* background task of each Job: position and locals
  cur,                \* the task running on the event loop, 0 if none
  response,           \* the HTTP response of the step, if it was a request
  progress_log,       \* per Job: percentages written with status processing
  observe,            \* the responses of the requests are recorded
  stream,             \* the progress stream of one client
  rag,                \* one question put to EnhancedRAGSystem
  processor           \* the processor class behind document_processor

vars == <<db, nextId, progress_store, progress_callbacks, vectorstore,
          embeddings, index, task, cur, response, progress_log, observe,
          stream, rag, processor>>

NoMeta == [keys |-> {}, error |-> ""]

NoRow == [exists |-> FALSE, processing_status |-> "none", chunk_count |-> 0,
          vector_ids_null |-> TRUE, vector_ids |-> <<>>,
          doc_metadata |-> NoMeta]

\* `timestamp` numbers the writes of the record: each write stores the
\* time of the write
NoProgress == [present |-> FALSE, progress |-> 0, status |-> "none",
               timestamp |-> 0, has_filename |-> FALSE, error |-> ""]

utcnow(store, doc_id) == store[doc_id].timestamp + 1

NoResult == [success |-> FALSE, error |-> "", chunk_count |-> 0,
             vector_ids |-> <<>>]

NoTask == [pc |-> "none", num_chunks |-> 0, batch_idx |-> 0, attempt |-> 0,
           vector_ids |-> <<>>, degraded |-> "", stage_error |-> "",
           db_fault |-> FALSE, result |-> NoResult]

\* the history kept of a run (degraded, stage_error, db_fault, progress_log)
\* is dropped once the Job is deleted and its task has ended
forgotten(t) == [NoTask EXCEPT !.pc = t.pc]

\* the values GET /documents/{id}/progress answers with
NoBody == [progress |-> 0, status |-> "none", timestamp |-> 0,
           filename |-> "none", error |-> ""]

\* `doc` and `body` are filled by GET progress; `repeat` tells that the
\* response before it answered the same request
NoResponse == [op |-> "none", code |-> 0, validation |-> "none",
               doc |-> 0, repeat |-> FALSE, body |-> NoBody]

reply(op, code, validation) ==
  [NoResponse EXCEPT !.op = op, !.code = code, !.validation = validation]

Min(a, b) == IF a < b THEN a ELSE b

\* no stream was opened; `emitted` counts the events sent (up to MaxEvents),
\* `last` is the status of the last one
NoStream == [pc |-> "none", doc |-> 0, emitted |-> 0, last |-> "none"]

\* the response a request leaves in `response`
respond(r) == IF observe THEN r ELSE NoResponse

\* ------------------------------------------------------ progress tracking
\* a mutation: the comparison is <= instead of <
update_document_progress_le(store, doc_id, progress) ==
  [store EXCEPT ![doc_id] =
     [present |-> TRUE, progress |-> progress,
      status |-> IF progress <= 100 THEN "processing" ELSE "completed",
      timestamp |-> utcnow(store, doc_id),
      has_filename |-> FALSE, error |-> ""]]

\* main.update_document_progress: the record is replaced as a whole
update_document_progress(store, doc_id, progress) ==
  [store EXCEPT ![doc_id] =
     [present |-> TRUE, progress |-> progress,
      status |-> IF progress < 100 THEN "processing" ELSE "completed",
      timestamp |-> utcnow(store, doc_id),
      has_filename |-> FALSE, error |-> ""]]

\* DocumentProcessor.update_progress: calls the callback registered for the
\* Job, which is lambda progress: update_document_progress(doc_record.id, ..)
update_progress(store, doc_id, progress) ==
  IF doc_id \in progress_callbacks
    THEN update_document_progress(store, doc_id, progress)
    ELSE store

\* a run of update_progress calls made without suspending
RECURSIVE update_progress_all(_, _, _)
update_progress_all(store, doc_id, ps) ==
  IF ps = <<>> THEN store
  ELSE update_progress_all(update_progress(store, doc_id, Head(ps)),
                           doc_id, Tail(ps))

\* a mutation: the failure record keeps the percentage and drops the error
failed_progress_no_error(store, doc_id, err) ==
  [store EXCEPT ![doc_id] =
     [present |-> TRUE, progress |-> store[doc_id].progress,
      status |-> "failed", timestamp |-> utcnow(store, doc_id),
      has_filename |-> FALSE, error |-> ""]]

\* the failure record written by process_document_background
failed_progress(store, doc_id, err) ==
  [store EXCEPT ![doc_id] =
     [present |-> TRUE, progress |-> 0, status |-> "failed",
      timestamp |-> utcnow(store, doc_id),
      has_filename |-> FALSE, error |-> err]]

\* the percentages of a run of writes that were stored with status processing
RECURSIVE ProcessingWrites(_, _)
ProcessingWrites(doc_id, ps) ==
  IF ps = <<>> THEN <<>>
  ELSE LET rec == update_document_progress(progress_store, doc_id, Head(ps))[doc_id]
       IN (IF rec.status = "processing" THEN <<rec.progress>> ELSE <<>>)
          \o ProcessingWrites(doc_id, Tail(ps))

Logged(doc_id, ps) ==
  [progress_log EXCEPT ![doc_id] =
     @ \o (IF doc_id \in progress_callbacks
             THEN ProcessingWrites(doc_id, ps) ELSE <<>>)]

\* ------------------------------------------------ answer strategy engine
\* a question is its sequence of characters
Questions ==
  { <<"w", "h", "y">>,
    <<"T", "H", "I", "S">>,
    <<"t", "h", "e", "s", "e">>,
    <<"t", "h", "e", "s", "i", "s">>,
    <<"p", "r", "o", "F", "i", "l", "e">>,
    <<"a", "c", "c", "o", "r", "d", "i", "n", "g", " ", "T", "o">> }

\* the marker words of intelligent_answer
Markers ==
  { <<"d", "o", "c", "u", "m", "e", "n", "t">>,
    <<"f", "i", "l", "e">>,
    <<"u", "p", "l", "o", "a", "d", "e", "d">>,
    <<"t", "h", "i", "s">>,
    <<"t", "h", "e", "s", "e">>,
    <<"a", "c", "c", "o", "r", "d", "i", "n", "g", " ", "t", "o">> }

\* str.lower on the upper-case letters of Questions
question_lower(question) ==
  LET lower == ("T" :> "t") @@ ("H" :> "h") @@ ("I" :> "i") @@
               ("S" :> "s") @@ ("F" :> "f")
  IN [k \in 1..Len(question) |->
        IF question[k] \in DOMAIN lower THEN lower[question[k]] ELSE question[k]]

\* word in text
contains(text, word) ==
  \E k \in 1..(Len(text) - Len(word) + 1) :
    SubSeq(text, k, k + Len(word) - 1) = word

\* a mutation: the markers are looked up in the question as typed
is_specific_query_cased(question) ==
  \E word \in Markers : contains(question, word)

is_specific_query(question) ==
  \E word \in Markers : contains(question_lower(question), word)

\* scores in tenths; a document without a score counts as 1.0
min_relevance_score == 5
DocScores == {4, 5, 10}

\* `documents[:3]`: the documents that enter the hybrid prompt
top_documents == 3

\* the documents argument: None, or a list of at most MaxDocs documents,
\* each given by its score, or a list of one more document than the hybrid
\* prompt takes (query_documents retrieves up to 5), all of one score
DocumentLists ==
  {[is_none |-> TRUE, items |-> <<>>]} \cup
  {[is_none |-> FALSE, items |-> d] :
     d \in UNION {[1..n -> DocScores] : n \in 0..MaxDocs}} \cup
  {[is_none |-> FALSE, items |-> [k \in 1..(top_documents + 1) |-> score]] :
     score \in DocScores}

\* `documents and len(documents) > 0`
truthy(documents) == ~documents.is_none /\ Len(documents.items) > 0

Strategies == {"auto", "docs_only", "general_only", "hybrid"}

\* what a generation call meets: an answer, an answer of no characters, a
\* non-success status or a timeout of the API, an exception of the chain
GenOutcomes == {"text", "empty", "http_error", "raises"}

\* a query makes at most three generation calls
MaxCalls == 3

None == "<None>"
Absent == "<absent>"

\* `not answer`
falsy(answer) == answer \in {None, ""}

\* a result record; Absent marks a key the record does not have
NoAnswer == [answer |-> None, relevance |-> Absent, source_type |-> Absent,
             sources_used |-> 0, fallback_reason |-> Absent,
             strategy_used |-> Absent]

\* the generation calls issued so far and the outcomes they will meet
NoCalls(outs) == [calls |-> <<>>, outs |-> outs]

issue(g, chain) == [g EXCEPT !.calls = Append(@, chain)]
met(g) == g.outs[Len(g.calls)]

\* DeepSeekLLM._acall: an error of the API becomes an apology
acall(out) ==
  CASE out = "text" -> "answer"
    [] out = "empty" -> ""
    [] out = "http_error" -> "I apologize"

\* a mutation: one qualifying document already gives the tag high
generate_answer_from_docs_any(g, documents) ==
  LET relevant_docs == SelectSeq(documents.items,
                                 LAMBDA score : score >= min_relevance_score)
      failed == [NoAnswer EXCEPT !.relevance = "error"]
      called == issue(g, "doc")
  IN IF documents.is_none THEN [res |-> failed, g |-> g]
     ELSE IF relevant_docs = <<>>
       THEN [res |-> [NoAnswer EXCEPT !.relevance = "low"], g |-> g]
     ELSE IF met(called) = "raises" THEN [res |-> failed, g |-> called]
     ELSE [res |-> [NoAnswer EXCEPT
                      !.answer = acall(met(called)),
                      !.relevance = "high",
                      !.sources_used = Len(relevant_docs)],
           g |-> called]

\* EnhancedRAGSystem.generate_answer_from_docs
generate_answer_from_docs(g, documents) ==
  LET relevant_docs == SelectSeq(documents.items,
                                 LAMBDA score : score >= min_relevance_score)
      failed == [NoAnswer EXCEPT !.relevance = "error"]
      called == issue(g, "doc")
  IN IF documents.is_none THEN [res |-> failed, g |-> g]
     ELSE IF relevant_docs = <<>>
       THEN [res |-> [NoAnswer EXCEPT !.relevance = "low"], g |-> g]
     ELSE IF met(called) = "raises" THEN [res |-> failed, g |-> called]
     ELSE [res |-> [NoAnswer EXCEPT
                      !.answer = acall(met(called)),
                      !.relevance = IF Len(relevant_docs) >= 2
                                      THEN "high" ELSE "medium",
                      !.sources_used = Len(relevant_docs)],
           g |-> called]

\* a mutation: the result carries no source_type
generate_general_answer_untyped(g) ==
  LET called == issue(g, "general")
  IN [res |-> [NoAnswer EXCEPT
                 !.answer = IF met(called) = "raises"
                              THEN "Sorry" ELSE acall(met(called))],
      g |-> called]

\* EnhancedRAGSystem.generate_general_answer
generate_general_answer(g) ==
  LET called == issue(g, "general")
  IN IF met(called) = "raises"
       THEN [res |-> [NoAnswer EXCEPT !.answer = "Sorry",
                                      !.source_type = "error"],
             g |-> called]
       ELSE [res |-> [NoAnswer EXCEPT !.answer = acall(met(called)),
                                      !.source_type = "general_knowledge"],
             g |-> called]

\* doc_context of generate_hybrid_answer: the first three documents
hybrid_context(documents) ==
  SubSeq(documents.items, 1, Min(top_documents, Len(documents.items)))

\* a mutation: the hybrid prompt is built without a general answer
generate_hybrid_answer_single(g, documents) ==
  LET called == issue(g, "hybrid")
  IN IF documents.is_none \/ met(called) = "raises"
       THEN [res |-> [NoAnswer EXCEPT !.answer = "Sorry",
                                      !.source_type = "error"],
             g |-> IF documents.is_none THEN g ELSE called]
       ELSE [res |-> [NoAnswer EXCEPT !.answer = acall(met(called)),
                                      !.source_type = "hybrid",
                                      !.sources_used = Len(documents.items)],
             g |-> called]

\* EnhancedRAGSystem.generate_hybrid_answer: `documents[:3]` raises on None
\* before any call is made
generate_hybrid_answer(g, documents) ==
  LET general_result == generate_general_answer(g)
      called == issue(general_result.g, "hybrid")
  IN IF documents.is_none \/ met(called) = "raises"
       THEN [res |-> [NoAnswer EXCEPT !.answer = "Sorry",
                                      !.source_type = "error"],
             g |-> IF documents.is_none THEN g ELSE called]
       ELSE [res |-> [NoAnswer EXCEPT !.answer = acall(met(called)),
                                      !.source_type = "hybrid",
                                      !.sources_used = Len(documents.items)],
             g |-> called]

\* intelligent_answer, strategy selection: `final` is the local
\* final_result, bound only when the documents were tried and found relevant
auto_select(g, question, documents, strategy) ==
  LET unbound == [strategy |-> strategy, has_final |-> FALSE,
                  final |-> NoAnswer, g |-> g]
      doc_result == generate_answer_from_docs(g, documents)
  IN IF strategy # "auto" THEN unbound
     ELSE IF ~truthy(documents)
       THEN [unbound EXCEPT !.strategy = "general_only"]
     ELSE IF is_specific_query(question)
       THEN [unbound EXCEPT !.strategy = "docs_only"]
     ELSE IF doc_result.res.relevance \in {"high", "medium"}
       THEN [strategy |-> "docs_only", has_final |-> TRUE,
             final |-> doc_result.res, g |-> doc_result.g]
     ELSE [unbound EXCEPT !.strategy = "hybrid", !.g = doc_result.g]

\* a mutation: the documents are always answered from again
execute_strategy_rerun(sel, documents) ==
  LET first == generate_answer_from_docs(sel.g, documents)
      general_result == generate_general_answer(first.g)
  IN IF sel.strategy = "docs_only" /\ truthy(documents)
       THEN IF falsy(first.res.answer)
              THEN [res |-> [general_result.res EXCEPT
                               !.fallback_reason = "low_document_relevance"],
                    g |-> general_result.g]
              ELSE first
     ELSE IF sel.strategy = "hybrid" /\ truthy(documents)
       THEN generate_hybrid_answer(sel.g, documents)
     ELSE generate_general_answer(sel.g)

\* intelligent_answer, execution of the chosen strategy
execute_strategy(sel, documents) ==
  LET first == IF sel.has_final
                 THEN [res |-> sel.final, g |-> sel.g]
                 ELSE generate_answer_from_docs(sel.g, documents)
      general_result == generate_general_answer(first.g)
  IN IF sel.strategy = "docs_only" /\ truthy(documents)
       THEN IF falsy(first.res.answer)
              THEN [res |-> [general_result.res EXCEPT
                               !.fallback_reason = "low_document_relevance"],
                    g |-> general_result.g]
              ELSE first
     ELSE IF sel.strategy = "hybrid" /\ truthy(documents)
       THEN generate_hybrid_answer(sel.g, documents)
     ELSE generate_general_answer(sel.g)

\* a mutation: the error of a status other than 200 is returned as no answer
railway_fallback_answer_raw(g, documents, api_key) ==
  LET called == issue(g, "railway")
      failed == [NoAnswer EXCEPT !.answer = "error", !.source_type = "error",
                                 !.strategy_used = "railway_error"]
  IN IF ~api_key THEN [res |-> failed, g |-> g]
     ELSE IF met(called) = "raises" THEN [res |-> failed, g |-> called]
     ELSE IF met(called) = "http_error"
       THEN [res |-> [failed EXCEPT !.answer = None], g |-> called]
     ELSE [res |-> [NoAnswer EXCEPT
                      !.answer = acall(met(called)),
                      !.source_type = IF truthy(documents)
                                        THEN "documents" ELSE "general_knowledge",
                      !.strategy_used = "railway_fallback"],
           g |-> called]

\* EnhancedRAGSystem._railway_fallback_answer: one direct call of the API
railway_fallback_answer(g, documents, api_key) ==
  LET called == issue(g, "railway")
      failed == [NoAnswer EXCEPT !.answer = "error", !.source_type = "error",
                                 !.strategy_used = "railway_error"]
  IN IF ~api_key THEN [res |-> failed, g |-> g]
     ELSE IF met(called) \in {"raises", "http_error"}
       THEN [res |-> failed, g |-> called]
     ELSE [res |-> [NoAnswer EXCEPT
                      !.answer = acall(met(called)),
                      !.source_type = IF truthy(documents)
                                        THEN "documents" ELSE "general_knowledge",
                      !.strategy_used = "railway_fallback"],
           g |-> called]

\* EnhancedRAGSystem.intelligent_answer
intelligent_answer(railway_mode, api_key, question, documents, strategy, outs) ==
  LET sel == auto_select(NoCalls(outs), question, documents, strategy)
      done == execute_strategy(sel, documents)
  IN IF railway_mode
       THEN railway_fallback_answer(NoCalls(outs), documents, api_key)
       ELSE [res |-> [done.res EXCEPT !.strategy_used = sel.strategy],
             g |-> done.g]

\* the question put to the engine, with the configuration of the engine
NoCall == [pc |-> "none", railway_mode |-> FALSE, api_key |-> FALSE,
           question |-> <<>>, documents |-> [is_none |-> TRUE, items |-> <<>>],
           strategy |-> "auto", outs |-> <<>>, calls |-> <<>>,
           result |-> NoAnswer, is_from_uploaded_docs |-> FALSE]

\* the engine leaves railway mode only if the DeepSeekLLM was constructed,
\* which takes an API key
RagCalls ==
  {[NoCall EXCEPT !.pc = "called", !.railway_mode = m[1], !.api_key = m[2],
                  !.question = q, !.documents = d, !.strategy = s] :
     m \in {<<FALSE, TRUE>>, <<TRUE, TRUE>>, <<TRUE, FALSE>>},
     q \in Questions, d \in DocumentLists, s \in Strategies}

\* rag_system.intelligent_answer is awaited; the generation calls meet any
\* outcomes
intelligent_answer_returns ==
  /\ rag.pc = "called"
  /\ \E outs \in [1..MaxCalls -> GenOutcomes] :
       LET r == intelligent_answer(rag.railway_mode, rag.api_key, rag.question,
                                   rag.documents, rag.strategy, outs)
       IN rag' = [rag EXCEPT !.pc = "returned", !.result = r.res,
                             !.calls = r.g.calls,
                             !.outs = SubSeq(outs, 1, Len(r.g.calls))]
  /\ UNCHANGED <<db, nextId, progress_store, progress_callbacks, vectorstore,
                 embeddings, index, task, cur, response, progress_log,
                 observe, processor, stream>>

\* rag_system.generate_answer_from_docs is awaited by a caller of its own
generate_answer_from_docs_returns ==
  /\ rag.pc = "called"
  /\ \E outs \in [1..MaxCalls -> GenOutcomes] :
       LET r == generate_answer_from_docs(NoCalls(outs), rag.documents)
       IN rag' = [rag EXCEPT !.pc = "doc_returned", !.result = r.res,
                             !.calls = r.g.calls,
                             !.outs = SubSeq(outs, 1, Len(r.g.calls))]
  /\ UNCHANGED <<db, nextId, progress_store, progress_callbacks, vectorstore,
                 embeddings, index, task, cur, response, progress_log,
                 observe, processor, stream>>

\* query_documents builds the QueryResponse
query_response ==
  /\ rag.pc = "returned"
  /\ rag' = [rag EXCEPT !.pc = "answered",
                        !.is_from_uploaded_docs =
                           (rag.result.source_type # "general_knowledge")]
  /\ UNCHANGED <<db, nextId, progress_store, progress_callbacks, vectorstore,
                 embeddings, index, task, cur, response, progress_log,
                 observe, processor, stream>>

\* ------------------------------------------------------------------ Init
\* the state after construction, up to the configuration of the index
Fresh ==
  /\ db = [j \in JobIds |-> NoRow]
  /\ nextId = 1
  /\ progress_store = [j \in JobIds |-> NoProgress]
  /\ progress_callbacks = {}
  /\ embeddings = vectorstore
  /\ index = {}
  /\ task = [j \in JobIds |-> NoTask]
  /\ cur = 0
  /\ response = NoResponse
  /\ progress_log = [j \in JobIds |-> <<>>]
  /\ stream = NoStream

Init ==
  /\ processor = "DocumentProcessor"
  /\ vectorstore \in BOOLEAN
  /\ observe = FALSE
  /\ rag = NoCall
  /\ Fresh

\* the service as shipped (no index configured), its responses recorded
InitHttp ==
  /\ processor = "DocumentProcessor"
  /\ vectorstore = FALSE
  /\ observe = TRUE
  /\ rag = NoCall
  /\ Fresh

\* a question was put to the engine
InitRag ==
  /\ processor = "DocumentProcessor"
  /\ vectorstore = FALSE
  /\ observe = FALSE
  /\ rag \in RagCalls
  /\ Fresh

\* ---------------------------------------------------------- POST /upload
\* the validation of upload_file: the first check that rejects the request
upload_validation(has_name, ext, size) ==
  IF ~has_name THEN "no_file"
  ELSE IF Lower(ext) \notin allowed_types THEN "bad_type"
  ELSE IF size > max_size THEN "too_large"
  ELSE "none"

\* `except Exception as e: raise HTTPException(status_code=500, ...)` of
\* upload_file and query_documents: HTTPException is an Exception, so the
\* handler catches what it raised itself and answers 500
handler_except(status_code) == 500

\* register_progress_callback: DocumentProcessor keeps one callback per Job,
\* SimpleDocumentProcessor keeps the callback registered last (the set then
\* holds the Job whose record that callback writes)
register_progress_callback(callbacks, doc_id) ==
  IF processor = "SimpleDocumentProcessor" THEN {doc_id}
  ELSE callbacks \cup {doc_id}

\* rows and records created by an accepted upload
upload_accept ==
  /\ nextId <= MaxJobs
  /\ db' = [db EXCEPT ![nextId] =
              [exists |-> TRUE, processing_status |-> "pending",
               chunk_count |-> 0, vector_ids_null |-> TRUE,
               vector_ids |-> <<>>, doc_metadata |-> NoMeta]]
  /\ nextId' = nextId + 1
  /\ progress_store' = [progress_store EXCEPT ![nextId] =
              [present |-> TRUE, progress |-> 0, status |-> "pending",
               timestamp |-> utcnow(progress_store, nextId),
               has_filename |-> TRUE, error |-> ""]]
  /\ progress_callbacks' = register_progress_callback(progress_callbacks, nextId)
  /\ task' = [task EXCEPT ![nextId] = [NoTask EXCEPT !.pc = "scheduled"]]

\* a mutation: the row and the progress record are created before the
\* size check
upload_file_validate_late ==
  /\ cur = 0
  /\ \E has_name \in BOOLEAN, ext \in Extensions, size \in Sizes :
       LET v == upload_validation(has_name, ext, size) IN
       IF v \in {"no_file", "bad_type"}
         THEN /\ response' = respond(reply("upload", handler_except(400), v))
              /\ UNCHANGED <<db, nextId, progress_store, progress_callbacks,
                             task>>
         ELSE /\ upload_accept
              /\ response' = respond([op |-> "upload",
                              code |-> IF v = "none" THEN 200
                                       ELSE handler_except(400),
                              validation |-> v])
  /\ UNCHANGED <<vectorstore, embeddings, index, cur, progress_log, observe, processor, stream, rag>>

upload_file ==
  /\ cur = 0
  /\ \E has_name \in BOOLEAN, ext \in Extensions, size \in Sizes :
       LET v == upload_validation(has_name, ext, size) IN
       IF v # "none"
         THEN /\ response' = respond(reply("upload", handler_except(400), v))
              /\ UNCHANGED <<db, nextId, progress_store, progress_callbacks,
                             task>>
         ELSE /\ upload_accept
              /\ response' = respond(reply("upload", 200, "none"))
  /\ UNCHANGED <<vectorstore, embeddings, index, cur, progress_log, observe, processor, stream, rag>>

\* ------------------------------------------------ DELETE /documents/{id}
\* DocumentProcessor.delete_document_vectors: the call to the index is
\* commented out, the index keeps its vectors
delete_document_vectors(idx, vector_ids) == idx

delete_document(doc_id) ==
  /\ cur = 0
  /\ IF ~db[doc_id].exists
       THEN /\ response' = respond(reply("delete", 404, "none"))
            /\ UNCHANGED <<db, progress_store, index>>
       ELSE /\ index' = IF db[doc_id].vector_ids_null THEN index
                        ELSE delete_document_vectors(index, db[doc_id].vector_ids)
            /\ db' = [db EXCEPT ![doc_id] = NoRow]
            /\ progress_store' = [progress_store EXCEPT ![doc_id] = NoProgress]
            /\ response' = respond(reply("delete", 200, "none"))
  /\ IF db[doc_id].exists /\ task[doc_id].pc \in {"done", "crashed"}
       THEN /\ task' = [task EXCEPT ![doc_id] = forgotten(@)]
            /\ progress_log' = [progress_log EXCEPT ![doc_id] = <<>>]
       ELSE UNCHANGED <<task, progress_log>>
  /\ UNCHANGED <<nextId, progress_callbacks, observe, processor, stream, rag,
                 vectorstore, embeddings, cur>>

\* ----------------------------------------------------------- POST /query
completed_docs == {j \in JobIds : db[j].exists /\ db[j].processing_status = "completed"}

\* DocumentProcessor.search_documents with doc_ids: nothing without the
\* index handle, else the stored chunks that pass the doc_id filter (the
\* similarity search picks up to k of them)
search_documents(handle, idx, doc_ids) ==
  IF ~handle THEN {}
  ELSE {v \in idx : \E d \in doc_ids : v \in ids_of(d)}

\* the precondition of query_documents and the status of its response;
\* retrieval and the answer engine change no state of the ingestion pipeline
query_documents ==
  /\ cur = 0
  /\ \E use_uploaded_docs_only \in BOOLEAN :
       IF completed_docs = {} /\ use_uploaded_docs_only
         THEN response' = respond(reply("query", handler_except(400), "no_docs"))
         ELSE response' = respond(reply("query", 200, "none"))
  /\ UNCHANGED <<db, nextId, progress_store, progress_callbacks, observe, processor, stream, rag, vectorstore,
                 embeddings, index, task, cur, progress_log>>

\* ------------------------------------------- GET /documents/{id}/progress
\* the values read from a record: progress_data.get("filename", "Unknown")
\* and progress_data.get("error")
progress_body(progress_data) ==
  [progress |-> progress_data.progress, status |-> progress_data.status,
   timestamp |-> progress_data.timestamp,
   filename |-> IF progress_data.has_filename THEN "uploaded" ELSE "Unknown",
   error |-> progress_data.error]

progress_reply(doc_id, store) ==
  [(IF ~store[doc_id].present
      THEN reply("progress", 404, "none")
      ELSE [reply("progress", 200, "none") EXCEPT
              !.body = progress_body(store[doc_id])])
   EXCEPT !.doc = doc_id,
          !.repeat = (response.op = "progress" /\ response.doc = doc_id)]

\* a mutation: the record of a finished Job is dropped once it was read
get_document_progress_pop(doc_id) ==
  /\ cur = 0
  /\ response' = respond(progress_reply(doc_id, progress_store))
  /\ progress_store' =
       IF progress_store[doc_id].status \in {"completed", "failed"}
         THEN [progress_store EXCEPT ![doc_id] = NoProgress]
         ELSE progress_store
  /\ UNCHANGED <<db, nextId, progress_callbacks, vectorstore,
                 embeddings, index, task, cur, progress_log, observe, processor, stream, rag>>

get_document_progress(doc_id) ==
  /\ cur = 0
  /\ response' = respond(progress_reply(doc_id, progress_store))
  /\ UNCHANGED <<db, nextId, progress_store, progress_callbacks, vectorstore,
                 embeddings, index, task, cur, progress_log, observe, processor, stream, rag>>

\* ------------------------------------ GET /documents/{id}/progress/stream
\* the handler: the generator it hands to StreamingResponse is run by the
\* server once the handler has returned
stream_document_progress(doc_id) ==
  /\ cur = 0
  /\ stream.pc = "none"
  /\ IF ~progress_store[doc_id].present
       THEN /\ response' = respond(reply("stream", 404, "none"))
            /\ UNCHANGED stream
       ELSE /\ response' = respond(reply("stream", 200, "none"))
            /\ stream' = [NoStream EXCEPT !.pc = "accepted", !.doc = doc_id]
  /\ UNCHANGED <<db, nextId, progress_store, progress_callbacks, vectorstore,
                 embeddings, index, task, cur, progress_log, observe, processor, rag>>

\* one pass of the generator's loop, from its start or from its sleep
generate_progress_stream ==
  /\ cur = 0
  /\ stream.pc \in {"accepted", "sleeping"}
  /\ LET progress_data == progress_store[stream.doc] IN
       IF ~progress_data.present
         THEN stream' = [stream EXCEPT !.pc = "ended"]
         ELSE stream' = [stream EXCEPT
                !.emitted = Min(@ + 1, MaxEvents),
                !.last = progress_data.status,
                !.pc = IF progress_data.status \in {"completed", "failed"}
                         THEN "ended" ELSE "sleeping"]
  /\ response' = NoResponse
  /\ UNCHANGED <<db, nextId, progress_store, progress_callbacks, vectorstore,
                 embeddings, index, task, cur, progress_log, observe, processor, rag>>

\* ------------------------------------------- process_document_background
\* the task may take a step: it holds the event loop, or the loop is free
\* and the task waits to be started or to be resumed from asyncio.sleep
Runnable(doc_id) ==
  \/ cur = doc_id
  \/ cur = 0 /\ task[doc_id].pc \in {"scheduled", "batch", "finalize"}

\* the coroutine has ended (returned, or left by an exception): its locals
\* are gone; what is kept is how the pipeline run went
returned(t, how) ==
  [NoTask EXCEPT !.pc = how, !.degraded = t.degraded,
                 !.stage_error = t.stage_error]

\* the outcomes of the commits of the task: the commit of the try block
\* succeeds; or it raises and the commit of the except block succeeds; or
\* both raise
CommitOutcomes == {"ok", "fails_once", "fails"}

\* str(e) of a commit that raised
commit_error == "commit failed"

\* lines 241-255 after a failed commit (the session was rolled back, the
\* changes of the try block are lost): the row is marked failed and
\* committed, then the failure record is written.  When this commit raises
\* too, the exception leaves the task before the failure record is written.
except_block(t, row, store, doc_id, commit) ==
  IF commit = "fails_once"
    THEN [task |-> [returned(t, "done") EXCEPT !.db_fault = TRUE],
          row |-> [row EXCEPT !.processing_status = "failed",
                              !.doc_metadata = [keys |-> {"error", "failed_at"},
                                                error |-> commit_error]],
          store |-> failed_progress(store, doc_id, commit_error)]
    ELSE [task |-> [returned(t, "crashed") EXCEPT !.db_fault = TRUE],
          row |-> row,
          store |-> store]

\* lines 196-203: load the row, mark it processing, first progress write.
\* Without a row, doc_record is None: the assignment raises, and so does the
\* assignment of the except block, which leaves the task with the exception.
background_start(doc_id) ==
  /\ task[doc_id].pc = "scheduled"
  /\ Runnable(doc_id)
  /\ IF ~db[doc_id].exists
       THEN /\ task' = [task EXCEPT ![doc_id] = returned(@, "crashed")]
            /\ cur' = 0
            /\ UNCHANGED <<db, progress_store, progress_log>>
       ELSE /\ db' = [db EXCEPT ![doc_id].processing_status = "processing"]
            /\ progress_store' = update_document_progress(progress_store, doc_id, 1)
            /\ progress_log' = [progress_log EXCEPT ![doc_id] =
                                  @ \o ProcessingWrites(doc_id, <<1>>)]
            /\ task' = [task EXCEPT ![doc_id].pc = "extract"]
            /\ cur' = doc_id
  /\ response' = NoResponse
  /\ UNCHANGED <<nextId, progress_callbacks, observe, processor, stream, rag,
                 vectorstore, embeddings, index>>

\* the `except Exception` of process_document: the failure result
failure_result(err) ==
  [success |-> FALSE, error |-> err, chunk_count |-> 0, vector_ids |-> <<>>]

\* process_document, step 1: extract_text, then the empty-text check
ExtractOutcomes == {"raises", "blank", "text"}

process_document_extract(doc_id) ==
  /\ processor # "SimpleDocumentProcessor"
  /\ task[doc_id].pc = "extract"
  /\ Runnable(doc_id)
  /\ \E outcome \in ExtractOutcomes :
       LET ps == IF outcome = "raises" THEN <<5>> ELSE <<5, 25>> IN
       /\ progress_store' = update_progress_all(progress_store, doc_id, ps)
       /\ progress_log' = Logged(doc_id, ps)
       /\ task' = [task EXCEPT ![doc_id] =
            IF outcome = "raises"
              THEN [@ EXCEPT !.pc = "result", !.stage_error = "extract",
                             !.result = failure_result("extraction error")]
            ELSE IF outcome = "blank"
              THEN [@ EXCEPT !.pc = "result", !.stage_error = "blank",
                             !.result = failure_result("No text content extracted from file")]
            ELSE [@ EXCEPT !.pc = "chunk"]]
  /\ cur' = doc_id
  /\ response' = NoResponse
  /\ UNCHANGED <<db, nextId, progress_callbacks, observe, processor, stream, rag,
                 vectorstore, embeddings, index>>

\* process_document, step 2: split_text, then the no-chunks check
process_document_chunk(doc_id) ==
  /\ processor = "DocumentProcessor"
  /\ task[doc_id].pc = "chunk"
  /\ Runnable(doc_id)
  /\ \E n \in ChunkCounts :
       /\ progress_store' = update_progress_all(progress_store, doc_id, <<30, 40>>)
       /\ progress_log' = Logged(doc_id, <<30, 40>>)
       /\ task' = [task EXCEPT ![doc_id] =
            IF n = 0
              THEN [@ EXCEPT !.pc = "result", !.stage_error = "no_chunks",
                             !.result = failure_result("No chunks created from text content")]
              ELSE [@ EXCEPT !.pc = "tag", !.num_chunks = n]]
  /\ cur' = doc_id
  /\ response' = NoResponse
  /\ UNCHANGED <<db, nextId, progress_callbacks, observe, processor, stream, rag,
                 vectorstore, embeddings, index>>

\* a mutation: the batch loop is entered without a look at the index handle
process_document_tag_unchecked(doc_id) ==
  /\ processor = "DocumentProcessor"
  /\ task[doc_id].pc = "tag"
  /\ Runnable(doc_id)
  /\ progress_store' = update_progress_all(progress_store, doc_id, <<50>>)
  /\ progress_log' = Logged(doc_id, <<50>>)
  /\ task' = [task EXCEPT ![doc_id] =
       [@ EXCEPT !.pc = "batch", !.batch_idx = 0, !.attempt = 0,
                 !.vector_ids = <<>>]]
  /\ cur' = doc_id
  /\ response' = NoResponse
  /\ UNCHANGED <<db, nextId, progress_callbacks, observe, processor, stream,
                 rag, vectorstore, embeddings, index>>

\* process_document, step 3: the chunk records with their metadata, then
\* the choice between the batch loop and text-only mode
process_document_tag(doc_id) ==
  /\ processor = "DocumentProcessor"
  /\ task[doc_id].pc = "tag"
  /\ Runnable(doc_id)
  /\ progress_store' = update_progress_all(progress_store, doc_id, <<50>>)
  /\ progress_log' = Logged(doc_id, <<50>>)
  /\ task' = [task EXCEPT ![doc_id] =
       IF vectorstore /\ embeddings
         THEN [@ EXCEPT !.pc = "batch", !.batch_idx = 0, !.attempt = 0,
                        !.vector_ids = <<>>]
         ELSE [@ EXCEPT !.pc = "finalize", !.vector_ids = <<>>,
                        !.degraded = "no_index"]]
  /\ cur' = doc_id
  /\ response' = NoResponse
  /\ UNCHANGED <<db, nextId, progress_callbacks, observe, processor, stream, rag,
                 vectorstore, embeddings, index>>

\* process_document, step 4: the batch loop

total_batches(n) == (n + batch_size - 1) \div batch_size

\* a mutation: the identifiers of a batch in descending chunk order
batch_ids_descending(doc_id, batch_idx, n) ==
  [k \in 1..(Min(batch_idx + batch_size, n) - batch_idx) |->
     vector_id(doc_id, Min(batch_idx + batch_size, n) - k)]

\* batch_ids = [f"{doc_id}_{j}" for j in range(batch_idx, min(...))]
batch_ids(doc_id, batch_idx, n) ==
  [k \in 1..(Min(batch_idx + batch_size, n) - batch_idx) |->
     vector_id(doc_id, batch_idx + k - 1)]

SeqRange(sq) == {sq[k] : k \in 1..Len(sq)}

\* a mutation: the share of the batches still to do
batch_progress_remaining(current_batch, total) ==
  50 + ((total - current_batch) * 40) \div total

\* progress = 50 + int((current_batch / total_batches) * 40)
batch_progress(current_batch, total) ==
  50 + (current_batch * 40) \div total

\* a mutation: a batch that failed on its last attempt fails the pipeline
\* (the exception reaches the `except Exception` of process_document)
exhausted_raises(t) ==
  [t EXCEPT !.pc = "result", !.degraded = "retries_exhausted",
            !.result = failure_result("add_documents failed")]

\* lines 179-187: the last attempt failed, the loop over the batches ends
exhausted(t) ==
  [t EXCEPT !.pc = "finalize", !.degraded = "retries_exhausted"]

\* one attempt of one batch: vectorstore.add_documents(batch, ids=batch_ids)
\* raises when the index refuses the batch, and also when another Job has
\* dropped the index handle in the meantime (vectorstore is None)
process_document_batch(doc_id) ==
  /\ processor = "DocumentProcessor"
  /\ task[doc_id].pc = "batch"
  /\ Runnable(doc_id)
  /\ \E accepted \in BOOLEAN :
       LET t == task[doc_id]
           ids == batch_ids(doc_id, t.batch_idx, t.num_chunks)
           current_batch == t.batch_idx \div batch_size + 1
           progress == batch_progress(current_batch, total_batches(t.num_chunks))
           next_idx == t.batch_idx + batch_size
       IN
       IF vectorstore /\ accepted
         THEN \* success: ids recorded, progress written, asyncio.sleep(0.5)
              /\ index' = index \cup SeqRange(ids)
              /\ progress_store' = update_progress_all(progress_store, doc_id, <<progress>>)
              /\ progress_log' = Logged(doc_id, <<progress>>)
              /\ task' = [task EXCEPT ![doc_id] =
                   [@ EXCEPT !.vector_ids = @ \o ids,
                             !.batch_idx = next_idx,
                             !.attempt = 0,
                             !.pc = IF next_idx < t.num_chunks THEN "batch"
                                    ELSE "finalize"]]
              /\ cur' = 0
              /\ UNCHANGED vectorstore
         ELSE IF t.attempt = max_retries - 1
           THEN \* last attempt: drop the index handle, leave the loop
                /\ vectorstore' = FALSE
                /\ task' = [task EXCEPT ![doc_id] = exhausted(@)]
                /\ cur' = doc_id
                /\ UNCHANGED <<index, progress_store, progress_log>>
           ELSE \* asyncio.sleep(2), then the next attempt
                /\ task' = [task EXCEPT ![doc_id].attempt = @ + 1]
                /\ cur' = 0
                /\ UNCHANGED <<index, progress_store, progress_log, vectorstore>>
  /\ response' = NoResponse
  /\ UNCHANGED <<db, nextId, progress_callbacks, observe, processor, stream, rag, embeddings>>

\* process_document, lines 205-217: 95, then 100, then the success result
process_document_finalize(doc_id) ==
  /\ processor = "DocumentProcessor"
  /\ task[doc_id].pc = "finalize"
  /\ Runnable(doc_id)
  /\ progress_store' = update_progress_all(progress_store, doc_id, <<95, 100>>)
  /\ progress_log' = Logged(doc_id, <<95, 100>>)
  /\ task' = [task EXCEPT ![doc_id] =
       [@ EXCEPT !.pc = "result",
                 !.result = [success |-> TRUE, error |-> "",
                             chunk_count |-> task[doc_id].num_chunks,
                             vector_ids |-> task[doc_id].vector_ids]]]
  /\ cur' = doc_id
  /\ response' = NoResponse
  /\ UNCHANGED <<db, nextId, progress_callbacks, observe, processor, stream, rag,
                 vectorstore, embeddings, index>>

\* doc_metadata written by process_document_background
success_metadata == [keys |-> {"text_length", "processed_at", "processing_time"},
                     error |-> ""]

failure_metadata(err) == [keys |-> {"error", "failed_at"}, error |-> err]

\* lines 210-238: the result is written to the row and to progress_store,
\* then committed.  When the row was deleted meanwhile the commit raises
\* after the progress write, the commit of the except block raises too, and
\* the exception leaves the task.
background_finish(doc_id) ==
  /\ task[doc_id].pc = "result"
  /\ Runnable(doc_id)
  /\ \E commit \in CommitOutcomes :
       LET r == task[doc_id].result
           written == IF r.success
                        THEN update_document_progress(progress_store, doc_id, 100)
                        ELSE failed_progress(progress_store, doc_id, r.error)
           row == IF r.success
                    THEN [db[doc_id] EXCEPT !.processing_status = "completed",
                                            !.chunk_count = r.chunk_count,
                                            !.vector_ids_null = FALSE,
                                            !.vector_ids = r.vector_ids,
                                            !.doc_metadata = success_metadata]
                    ELSE [db[doc_id] EXCEPT !.processing_status = "failed",
                                            !.doc_metadata = failure_metadata(r.error)]
           e == except_block(task[doc_id], db[doc_id], written, doc_id, commit)
       IN
       /\ progress_log' = [progress_log EXCEPT ![doc_id] =
                             IF ~db[doc_id].exists THEN <<>>
                             ELSE @ \o (IF r.success
                                          THEN ProcessingWrites(doc_id, <<100>>)
                                          ELSE <<>>)]
       /\ IF ~db[doc_id].exists
            THEN /\ progress_store' = written
                 /\ task' = [task EXCEPT ![doc_id] =
                               forgotten(returned(@, "crashed"))]
                 /\ UNCHANGED db
            ELSE IF commit = "ok"
              THEN /\ progress_store' = written
                   /\ db' = [db EXCEPT ![doc_id] = row]
                   /\ task' = [task EXCEPT ![doc_id] = returned(@, "done")]
              ELSE /\ progress_store' = e.store
                   /\ db' = [db EXCEPT ![doc_id] = e.row]
                   /\ task' = [task EXCEPT ![doc_id] = e.task]
  /\ cur' = 0
  /\ response' = NoResponse
  /\ UNCHANGED <<nextId, progress_callbacks, observe, processor, stream, rag,
                 vectorstore, embeddings, index>>

\* ------------------------- src/simple_document_processor.py (variant)
\* SimpleDocumentProcessor.update_progress: `self.progress_callback(progress)`
\* whatever doc_id is; the callback writes the record of the Job it was
\* registered for
simple_update_progress(store, doc_id, progress) ==
  IF progress_callbacks = {} THEN store
  ELSE update_document_progress(store, CHOOSE j \in progress_callbacks : TRUE,
                                progress)

RECURSIVE simple_update_progress_all(_, _, _)
simple_update_progress_all(store, doc_id, ps) ==
  IF ps = <<>> THEN store
  ELSE simple_update_progress_all(
         simple_update_progress(store, doc_id, Head(ps)), doc_id, Tail(ps))

\* chunk counts of _simple_chunk: no word, or some chunks
SimpleChunkCounts == {0, MaxChunks}

\* SimpleDocumentProcessor.process_document: no await, so one step; the
\* extraction catches its own errors; 10, 50, 80, 100, the success result
simple_process_document(doc_id) ==
  /\ processor = "SimpleDocumentProcessor"
  /\ task[doc_id].pc = "extract"
  /\ Runnable(doc_id)
  /\ \E n \in SimpleChunkCounts :
       task' = [task EXCEPT ![doc_id] =
         [@ EXCEPT !.pc = "result", !.num_chunks = n,
                   !.result = [success |-> TRUE, error |-> "",
                               chunk_count |-> n,
                               vector_ids |->
                                 [k \in 1..n |-> <<"simple_">> \o
                                                  vector_id(doc_id, k - 1)]]]]
  /\ progress_store' =
       simple_update_progress_all(progress_store, doc_id, <<10, 50, 80, 100>>)
  /\ progress_log' =
       IF progress_callbacks = {} THEN progress_log
       ELSE LET j == CHOOSE c \in progress_callbacks : TRUE
            IN [progress_log EXCEPT ![j] = @ \o <<10, 50, 80>>]
  /\ cur' = doc_id
  /\ response' = NoResponse
  /\ UNCHANGED <<db, nextId, progress_callbacks, observe, processor, stream,
                 rag, vectorstore, embeddings, index>>

\* --------------------------- backend/src/document_processor.py (variant)
\* DocumentProcessor of backend/src: its __init__ always builds embeddings
\* and the PineconeVectorStore, and process_document has no text-only mode

\* chunk counts of the variant: none, one full batch, more than one batch
BackendChunkCounts ==
  {0, backend_batch_size, backend_batch_size + (MaxChunks - batch_size)}

backend_process_document_chunk(doc_id) ==
  /\ processor = "backend.DocumentProcessor"
  /\ task[doc_id].pc = "chunk"
  /\ Runnable(doc_id)
  /\ \E n \in BackendChunkCounts :
       /\ progress_store' = update_progress_all(progress_store, doc_id, <<30, 40>>)
       /\ progress_log' = Logged(doc_id, <<30, 40>>)
       /\ task' = [task EXCEPT ![doc_id] =
            IF n = 0
              THEN [@ EXCEPT !.pc = "result", !.stage_error = "no_chunks",
                             !.result = failure_result("No chunks created from text content")]
              ELSE [@ EXCEPT !.pc = "tag", !.num_chunks = n]]
  /\ cur' = doc_id
  /\ response' = NoResponse
  /\ UNCHANGED <<db, nextId, progress_callbacks, observe, processor, stream,
                 rag, vectorstore, embeddings, index>>

\* lines 122-138: the chunk records, progress 50, vector_ids = []
backend_process_document_tag(doc_id) ==
  /\ processor = "backend.DocumentProcessor"
  /\ task[doc_id].pc = "tag"
  /\ Runnable(doc_id)
  /\ progress_store' = update_progress_all(progress_store, doc_id, <<50>>)
  /\ progress_log' = Logged(doc_id, <<50>>)
  /\ task' = [task EXCEPT ![doc_id] =
       [@ EXCEPT !.pc = "batch", !.batch_idx = 0, !.attempt = 0,
                 !.vector_ids = <<>>]]
  /\ cur' = doc_id
  /\ response' = NoResponse
  /\ UNCHANGED <<db, nextId, progress_callbacks, observe, processor, stream,
                 rag, vectorstore, embeddings, index>>

backend_total_batches(n) == (n + backend_batch_size - 1) \div backend_batch_size

\* a mutation: the chunks are numbered within their batch
backend_batch_ids_relative(doc_id, batch_idx, n) ==
  [k \in 1..(Min(batch_idx + backend_batch_size, n) - batch_idx) |->
     vector_id(doc_id, k - 1)]

backend_batch_ids(doc_id, batch_idx, n) ==
  [k \in 1..(Min(batch_idx + backend_batch_size, n) - batch_idx) |->
     vector_id(doc_id, batch_idx + k - 1)]

\* progress = 50 + int((current_batch / total_batches) * 50)
backend_batch_progress(current_batch, total) ==
  50 + (current_batch * 50) \div total

\* a mutation: after the last attempt the batch is started over
backend_raise_restart(t) == [t EXCEPT !.attempt = 0]

\* `raise e` of the last attempt: the exception reaches the `except Exception`
\* of process_document, which returns the failure result
backend_raise(t) ==
  [t EXCEPT !.pc = "result", !.degraded = "retries_exhausted",
            !.result = failure_result("add_documents failed")]

\* one attempt of one batch.  vector_ids.extend(batch_ids) runs once per
\* batch, before the first attempt
backend_process_document_batch(doc_id) ==
  /\ processor = "backend.DocumentProcessor"
  /\ task[doc_id].pc = "batch"
  /\ Runnable(doc_id)
  /\ \E accepted \in BOOLEAN :
       LET t == task[doc_id]
           ids == backend_batch_ids(doc_id, t.batch_idx, t.num_chunks)
           extended == IF t.attempt = 0 THEN t.vector_ids \o ids
                       ELSE t.vector_ids
           current_batch == t.batch_idx \div backend_batch_size + 1
           progress == backend_batch_progress(current_batch,
                                              backend_total_batches(t.num_chunks))
           next_idx == t.batch_idx + backend_batch_size
       IN
       IF vectorstore /\ accepted
         THEN \* success: progress written, asyncio.sleep(0.1)
              /\ index' = index \cup SeqRange(ids)
              /\ progress_store' = update_progress_all(progress_store, doc_id, <<progress>>)
              /\ progress_log' = Logged(doc_id, <<progress>>)
              /\ task' = [task EXCEPT ![doc_id] =
                   [@ EXCEPT !.vector_ids = extended,
                             !.batch_idx = next_idx,
                             !.attempt = 0,
                             !.pc = IF next_idx < t.num_chunks THEN "batch"
                                    ELSE "finalize"]]
              /\ cur' = 0
         ELSE IF t.attempt = backend_max_retries - 1
           THEN /\ task' = [task EXCEPT ![doc_id] =
                              backend_raise([@ EXCEPT !.vector_ids = extended])]
                /\ cur' = doc_id
                /\ UNCHANGED <<index, progress_store, progress_log>>
           ELSE \* asyncio.sleep(1), then the next attempt
                /\ task' = [task EXCEPT ![doc_id] =
                              [@ EXCEPT !.vector_ids = extended,
                                        !.attempt = @ + 1]]
                /\ cur' = 0
                /\ UNCHANGED <<index, progress_store, progress_log>>
  /\ response' = NoResponse
  /\ UNCHANGED <<db, nextId, progress_callbacks, observe, processor, stream,
                 rag, vectorstore, embeddings>>

\* lines 174-184: 100, then the success result
backend_process_document_finalize(doc_id) ==
  /\ processor = "backend.DocumentProcessor"
  /\ task[doc_id].pc = "finalize"
  /\ Runnable(doc_id)
  /\ progress_store' = update_progress_all(progress_store, doc_id, <<100>>)
  /\ progress_log' = Logged(doc_id, <<100>>)
  /\ task' = [task EXCEPT ![doc_id] =
       [@ EXCEPT !.pc = "result",
                 !.result = [success |-> TRUE, error |-> "",
                             chunk_count |-> task[doc_id].num_chunks,
                             vector_ids |-> task[doc_id].vector_ids]]]
  /\ cur' = doc_id
  /\ response' = NoResponse
  /\ UNCHANGED <<db, nextId, progress_callbacks, observe, processor, stream,
                 rag, vectorstore, embeddings, index>>

\* ------------------------------------------------------------------ Next
Next ==
  \/ upload_file
  \/ \E doc_id \in JobIds : delete_document(doc_id)
  \/ query_documents
  \/ \E doc_id \in JobIds : get_document_progress(doc_id)
  \/ \E doc_id \in JobIds : background_start(doc_id)
  \/ \E doc_id \in JobIds : process_document_extract(doc_id)
  \/ \E doc_id \in JobIds : process_document_chunk(doc_id)
  \/ \E doc_id \in JobIds : process_document_tag(doc_id)
  \/ \E doc_id \in JobIds : process_document_batch(doc_id)
  \/ \E doc_id \in JobIds : process_document_finalize(doc_id)
  \/ \E doc_id \in JobIds : background_finish(doc_id)

Spec == Init /\ [][Next]_vars

\* the steps of the service as shipped: the batch loop is never entered
NextHttp ==
  \/ upload_file
  \/ \E doc_id \in JobIds : delete_document(doc_id)
  \/ query_documents
  \/ \E doc_id \in JobIds : get_document_progress(doc_id)
  \/ \E doc_id \in JobIds : background_start(doc_id)
  \/ \E doc_id \in JobIds : process_document_extract(doc_id)
  \/ \E doc_id \in JobIds : process_document_chunk(doc_id)
  \/ \E doc_id \in JobIds : process_document_tag(doc_id)
  \/ \E doc_id \in JobIds : process_document_finalize(doc_id)
  \/ \E doc_id \in JobIds : background_finish(doc_id)

SpecHttp == InitHttp /\ [][NextHttp]_vars

\* a step of a background task
TaskStep ==
  \E doc_id \in JobIds :
    \/ background_start(doc_id)
    \/ process_document_extract(doc_id)
    \/ process_document_chunk(doc_id)
    \/ process_document_tag(doc_id)
    \/ process_document_batch(doc_id)
    \/ process_document_finalize(doc_id)
    \/ background_finish(doc_id)

\* the service with a client that opens a progress stream
NextStream ==
  \/ Next
  \/ \E doc_id \in JobIds : stream_document_progress(doc_id)
  \/ generate_progress_stream

\* the event loop runs every coroutine that is ready: a scheduled task and
\* a generator whose sleep has elapsed are eventually resumed
SpecStream ==
  Init /\ [][NextStream]_vars /\ WF_vars(TaskStep) /\ WF_vars(generate_progress_stream)

\* the service with either DocumentProcessor behind document_processor;
\* the variant of backend/src has its index configured
InitVariants ==
  /\ processor \in {"DocumentProcessor", "backend.DocumentProcessor"}
  /\ vectorstore \in (IF processor = "DocumentProcessor" THEN BOOLEAN ELSE {TRUE})
  /\ observe = FALSE
  /\ rag = NoCall
  /\ Fresh

NextVariants ==
  \/ upload_file
  \/ \E doc_id \in JobIds : delete_document(doc_id)
  \/ \E doc_id \in JobIds : background_start(doc_id)
  \/ \E doc_id \in JobIds : process_document_extract(doc_id)
  \/ \E doc_id \in JobIds : background_finish(doc_id)
  \/ \E doc_id \in JobIds : process_document_chunk(doc_id)
  \/ \E doc_id \in JobIds : process_document_tag(doc_id)
  \/ \E doc_id \in JobIds : process_document_batch(doc_id)
  \/ \E doc_id \in JobIds : process_document_finalize(doc_id)
  \/ \E doc_id \in JobIds : backend_process_document_chunk(doc_id)
  \/ \E doc_id \in JobIds : backend_process_document_tag(doc_id)
  \/ \E doc_id \in JobIds : backend_process_document_batch(doc_id)
  \/ \E doc_id \in JobIds : backend_process_document_finalize(doc_id)

SpecVariants == InitVariants /\ [][NextVariants]_vars

\* the service with SimpleDocumentProcessor behind document_processor
InitSimple ==
  /\ processor = "SimpleDocumentProcessor"
  /\ vectorstore = FALSE
  /\ observe = FALSE
  /\ rag = NoCall
  /\ Fresh

NextSimple ==
  \/ upload_file
  \/ \E doc_id \in JobIds : delete_document(doc_id)
  \/ \E doc_id \in JobIds : background_start(doc_id)
  \/ \E doc_id \in JobIds : simple_process_document(doc_id)
  \/ \E doc_id \in JobIds : background_finish(doc_id)

SpecSimple == InitSimple /\ [][NextSimple]_vars

NextRag ==
  \/ intelligent_answer_returns
  \/ generate_answer_from_docs_returns
  \/ query_response

SpecRag == InitRag /\ [][NextRag]_vars

\* max_retries of the processor in use
retries ==
  IF processor = "backend.DocumentProcessor" THEN backend_max_retries
  ELSE max_retries

TypeOK ==
  /\ cur \in 0..MaxJobs
  /\ nextId \in 1..(MaxJobs + 1)
  /\ \A j \in JobIds : task[j].attempt \in 0..(retries - 1)

\* a step of the task of Job j
StepOf(j) == task'[j] # task[j]

\* ---------------------------------------------------------------- claims
IsNonDecreasing(sq) == \A k \in 1..(Len(sq) - 1) : sq[k] <= sq[k + 1]

\* C1: for every Job, the percentages written to its progress record with
\* status processing (1 at the start of the task, the milestones of
\* process_document, the per-batch values, 95) form a non-decreasing
\* sequence, whatever the run: full indexing, text-only, degraded, failure.
C1_ProgressNonDecreasing ==
  \A j \in JobIds : IsNonDecreasing(progress_log[j])

\* a Job that went through two batches and reached 95
C1_Witness ==
  \E j \in JobIds :
    /\ Len(progress_log[j]) >= 9
    /\ progress_log[j][Len(progress_log[j])] = 95
    /\ Len(task[j].vector_ids) > batch_size

\* C2: a progress record holds 100 exactly when its status is completed.
C2_HundredIffCompleted ==
  \A j \in JobIds :
    progress_store[j].present =>
      (progress_store[j].progress = 100 <=> progress_store[j].status = "completed")

\* a completed record next to a failed one
C2_Witness ==
  \E j, k \in JobIds :
    /\ progress_store[j].present /\ progress_store[j].status = "completed"
    /\ progress_store[k].present /\ progress_store[k].status = "failed"

\* C3: when a batch has failed on every allowed attempt, process_document
\* returns success with chunk_count > 0, and the background task leaves the
\* Job completed with progress 100.
C3_ExhaustedRetriesComplete ==
  \A j \in JobIds :
    task[j].degraded = "retries_exhausted" =>
      /\ task[j].pc \in {"finalize", "result", "done", "crashed"}
      /\ task[j].pc = "result" =>
           task[j].result.success /\ task[j].result.chunk_count > 0
      /\ (task[j].pc = "done" /\ db[j].exists /\ ~task[j].db_fault) =>
           /\ db[j].processing_status = "completed"
           /\ db[j].chunk_count > 0
           /\ progress_store[j].present
           /\ progress_store[j].status = "completed"
           /\ progress_store[j].progress = 100

C3_Witness ==
  \E j \in JobIds :
    /\ task[j].degraded = "retries_exhausted"
    /\ task[j].pc = "done"
    /\ ~task[j].db_fault
    /\ db[j].exists
    /\ db[j].processing_status = "completed"

\* C4: a completed Job records either no vector identifier or one per
\* chunk, never a partial prefix.
C4_VectorIdsAllOrNothing ==
  \A j \in JobIds :
    (task[j].pc = "done" /\ db[j].exists /\ db[j].processing_status = "completed") =>
      Len(db[j].vector_ids) \in {0, db[j].chunk_count}

\* C5: the metadata of a Job completed in degraded mode (no index, or
\* retries exhausted) holds a record of why indexing was skipped, that is a
\* key besides text_length, processed_at and processing_time.
C5_DegradedReasonRecorded ==
  \A j \in JobIds :
    (/\ task[j].pc = "done" /\ db[j].exists
     /\ db[j].processing_status = "completed"
     /\ task[j].degraded # "") =>
      db[j].doc_metadata.keys \ success_metadata.keys # {}

\* C6: a validation failure of the upload or query handler is answered with
\* a 400-class status.
C6_ValidationIs4xx ==
  response.validation # "none" => response.code \in 400..499

\* C7: an upload that is rejected changes nothing: no row, no progress
\* record, no callback, no background task.
C7_RejectedUploadNoEffect ==
  [][(response'.op = "upload" /\ response'.code # 200) =>
       UNCHANGED <<db, nextId, progress_store, progress_callbacks, task,
                   index, vectorstore, embeddings, cur, progress_log>>]_vars

\* an oversize upload was rejected while a Job exists
C7_Witness ==
  /\ response.op = "upload"
  /\ response.validation = "too_large"
  /\ nextId > 1

\* C8: a Job whose row was deleted has no progress record, at any later
\* time.
C8_NoProgressAfterDelete ==
  \A j \in JobIds :
    (j < nextId /\ ~db[j].exists) => ~progress_store[j].present

\* C9: no exception leaves the background task.
C9_NoExceptionEscapes ==
  \A j \in JobIds : task[j].pc # "crashed"

\* C10: when extraction raises or yields blank text, or chunking yields no
\* chunk, no later stage runs (no chunking after a failed extraction, no
\* batch, no later progress milestone), and the task leaves the Job failed
\* with chunk_count 0, no vector identifiers, and the error string in the
\* metadata and in the progress record.
StageErrorText(stage) ==
  IF stage = "extract" THEN "extraction error"
  ELSE IF stage = "blank" THEN "No text content extracted from file"
  ELSE "No chunks created from text content"

C10_EarlyFailureFailsJob ==
  \A j \in JobIds :
    task[j].stage_error # "" =>
      /\ task[j].pc \in {"result", "done", "crashed"}
      /\ task[j].pc = "result" =>
           /\ ~task[j].result.success
           /\ task[j].result.error # ""
           /\ task[j].result.chunk_count = 0
           /\ task[j].result.vector_ids = <<>>
      /\ task[j].vector_ids = <<>>
      /\ \A v \in index : v \notin ids_of(j)
      /\ task[j].stage_error \in {"extract", "blank"} =>
           /\ task[j].num_chunks = 0
           /\ \A k \in 1..Len(progress_log[j]) : progress_log[j][k] <= 25
      /\ task[j].stage_error = "extract" =>
           \A k \in 1..Len(progress_log[j]) : progress_log[j][k] <= 5
      /\ \A k \in 1..Len(progress_log[j]) : progress_log[j][k] <= 40
      /\ (task[j].pc = "done" /\ db[j].exists) =>
           /\ db[j].processing_status = "failed"
           /\ db[j].chunk_count = 0
           /\ db[j].vector_ids_null
           /\ "error" \in db[j].doc_metadata.keys
           /\ db[j].doc_metadata.error # ""
           /\ progress_store[j].present
           /\ progress_store[j].status = "failed"
           /\ progress_store[j].error = db[j].doc_metadata.error
      /\ (task[j].pc = "done" /\ db[j].exists /\ ~task[j].db_fault) =>
           db[j].doc_metadata.error = StageErrorText(task[j].stage_error)

C10_Witness ==
  \E j \in JobIds :
    /\ task[j].stage_error = "no_chunks"
    /\ task[j].pc = "done"
    /\ ~task[j].db_fault
    /\ db[j].exists
    /\ progress_store[j].status = "failed"

\* C11: the persisted processing_status and the status of the progress
\* record change only along pending -> processing -> completed | failed
\* (failed from any non-terminal status); a status that is completed or
\* failed is never changed to another one by a later step.
StatusStep(a, b) ==
  \/ a = b
  \/ a = "pending" /\ b \in {"processing", "failed"}
  \/ a = "processing" /\ b \in {"completed", "failed"}

C12_StreamEmitsAndEnds ==
  /\ [](stream.pc = "ended" => stream.emitted >= 1)
  /\ [](stream.pc = "sleeping" => stream.last \notin {"completed", "failed"})
  /\ (stream.pc = "accepted") ~> (stream.pc = "ended")

\* C19: GET /documents/{id}/progress changes neither the progress store nor
\* any Job, and a call that directly follows a call for the same Job is
\* answered with the same values as that call.
C19_ProgressIsPureRead ==
  [][\A j \in JobIds :
       (response'.op = "progress" /\ response'.doc = j) =>
         /\ UNCHANGED <<db, progress_store, progress_callbacks, task, index>>
         /\ (response.op = "progress" /\ response.doc = j) =>
              /\ response'.code = response.code
              /\ response'.body = response.body]_vars

C19_Witness ==
  /\ response.op = "progress"
  /\ response.repeat
  /\ response.code = 200
  /\ response.body.status = "completed"

\* C20: as long as the progress record of a Job exists, GET
\* /documents/{id}/progress reports the filename given at upload.
C20_FilenameReported ==
  (response.op = "progress" /\ response.code = 200) =>
    response.body.filename = "uploaded"

\* the question of a query is answered from the documents given
DocsGiven == truthy(rag.documents)
Relevant == \E k \in 1..Len(rag.documents.items) :
              rag.documents.items[k] >= min_relevance_score

\* C13: under strategy auto with no retrieved documents (None or empty) the
\* engine resolves to general_only: exactly one generation call, without
\* document context, strategy_used general_only, is_from_uploaded_docs false.
C13_AutoNoDocsGeneral ==
  (rag.pc = "answered" /\ rag.strategy = "auto" /\ ~DocsGiven) =>
    /\ rag.calls \in {<<"general">>, <<"railway">>}
    /\ rag.result.strategy_used = "general_only"
    /\ ~rag.is_from_uploaded_docs

\* the questions of Questions whose lower-cased text contains a marker
SpecificQuestions ==
  { <<"T", "H", "I", "S">>,
    <<"t", "h", "e", "s", "e">>,
    <<"p", "r", "o", "F", "i", "l", "e">>,
    <<"a", "c", "c", "o", "r", "d", "i", "n", "g", " ", "T", "o">> }

\* the outcome of the k-th generation call of the query
Met(k) == IF k <= Len(rag.outs) THEN rag.outs[k] ELSE "none"

C16_AutoLowRelevanceHybrid ==
  (rag.pc = "answered" /\ rag.strategy = "auto"
     /\ rag.question \notin SpecificQuestions /\ DocsGiven /\ ~Relevant) =>
    /\ rag.calls = <<"general", "hybrid">>
    /\ rag.result.source_type = "hybrid"
    /\ rag.result.strategy_used = "hybrid"

\* C16, amended: the same in LangChain mode, source_type being error when
\* the hybrid call raises.
C16_AutoLowRelevanceHybrid_LangChain ==
  (rag.pc = "answered" /\ ~rag.railway_mode /\ rag.strategy = "auto"
     /\ rag.question \notin SpecificQuestions /\ DocsGiven /\ ~Relevant) =>
    /\ rag.calls = <<"general", "hybrid">>
    /\ rag.result.source_type = IF Met(2) = "raises" THEN "error" ELSE "hybrid"
    /\ rag.result.strategy_used = "hybrid"

C16_Witness ==
  /\ rag.pc = "answered" /\ ~rag.railway_mode /\ rag.strategy = "auto"
  /\ rag.question = <<"w", "h", "y">>
  /\ rag.documents.items = <<4, 4>>
  /\ rag.calls = <<"general", "hybrid">> /\ rag.result.source_type = "hybrid"

\* docs_only is executed by intelligent_answer
DocsOnlyExecuted ==
  /\ ~rag.railway_mode
  /\ \/ rag.strategy = "docs_only"
     \/ rag.strategy = "auto" /\ rag.question \in SpecificQuestions

\* C17: when docs_only is executed on a non-empty document list of which no
\* document meets the threshold, the result is the general-knowledge answer
\* with fallback_reason, made by exactly one generation call, source_type
\* general_knowledge.
C17_DocsOnlyFallsBack ==
  (rag.pc = "answered" /\ DocsOnlyExecuted /\ DocsGiven /\ ~Relevant) =>
    /\ rag.calls = <<"general">>
    /\ rag.result.fallback_reason = "low_document_relevance"
    /\ rag.result.source_type = "general_knowledge"

\* C17, amended: source_type is error when the general call raises.
C17_DocsOnlyFallsBack_Unless ==
  (rag.pc = "answered" /\ DocsOnlyExecuted /\ DocsGiven /\ ~Relevant) =>
    /\ rag.calls = <<"general">>
    /\ rag.result.fallback_reason = "low_document_relevance"
    /\ rag.result.source_type =
         IF Met(1) = "raises" THEN "error" ELSE "general_knowledge"

C17_Witness ==
  /\ rag.pc = "answered" /\ ~rag.railway_mode /\ rag.strategy = "docs_only"
  /\ rag.documents.items = <<4>>
  /\ rag.result.fallback_reason = "low_document_relevance"
  /\ rag.result.source_type = "general_knowledge"

\* C18: intelligent_answer returns, for every strategy, document list, mode
\* and outcome of the generation calls, a record with an answer that is a
\* string and with a strategy_used.
C18_AlwaysWellFormed ==
  rag.pc \in {"returned", "answered"} =>
    /\ rag.result.answer # None
    /\ rag.result.strategy_used # Absent

C18_Witness ==
  /\ rag.pc = "returned" /\ rag.railway_mode /\ rag.api_key
  /\ rag.outs = <<"http_error">>
  /\ rag.result.strategy_used = "railway_error"

\* batch size of the processor in use
bsize ==
  IF processor = "backend.DocumentProcessor" THEN backend_batch_size
  ELSE batch_size

\* an upper bound of the add_documents calls one run can make
BatchBudget == (MaxChunks + backend_batch_size) * backend_max_retries

\* the steps process_document has left at most: the stages before the batch
\* loop, then for every batch not yet stored the attempts it may still use
Rank(t) ==
  IF t.pc = "extract" THEN BatchBudget + 4
  ELSE IF t.pc = "chunk" THEN BatchBudget + 3
  ELSE IF t.pc = "tag" THEN BatchBudget + 2
  ELSE IF t.pc = "batch"
    THEN 1 + ((t.num_chunks - t.batch_idx + bsize - 1) \div bsize) * retries
           - t.attempt
  ELSE IF t.pc = "finalize" THEN 1
  ELSE 0

InProcessDocument(t) == t.pc \in {"extract", "chunk", "tag", "batch", "finalize"}

\* C21: with either DocumentProcessor, a step of the batch loop is one
\* add_documents call for the current batch, and it is at most the
\* max_retries-th call for that batch (2 in src/src, 3 in backend/src); a
\* Job one of whose batches failed on all its attempts is not in the batch
\* loop again; and every step of process_document lowers the number of steps
\* it has left, which is never negative, so process_document terminates
\* whichever calls fail.
C21_BoundedRetriesTerminate ==
  [][\A j \in JobIds :
       /\ (task[j].pc = "batch" /\ task'[j] # task[j]) =>
             /\ task[j].attempt + 1 <= retries
             /\ task'[j].pc = "batch" /\ task'[j].batch_idx = task[j].batch_idx
                  => task'[j].attempt = task[j].attempt + 1
       /\ task[j].degraded = "retries_exhausted" => task'[j].pc # "batch"
       /\ (InProcessDocument(task[j]) /\ task'[j] # task[j]) =>
             /\ Rank(task'[j]) < Rank(task[j])
             /\ Rank(task'[j]) >= 0]_vars

\* a Job of the backend variant whose second batch failed three times, after
\* its first batch was stored
C21_Witness ==
  /\ processor = "backend.DocumentProcessor"
  /\ \E j \in JobIds :
       /\ task[j].degraded = "retries_exhausted"
       /\ task[j].pc = "done"
       /\ vector_id(j, 0) \in index

\* the stages of a run in the order of the code
StageNo(pc) ==
  CASE pc = "none" -> 0
    [] pc = "scheduled" -> 1
    [] pc = "extract" -> 2
    [] pc = "chunk" -> 3
    [] pc = "tag" -> 4
    [] pc = "batch" -> 5
    [] pc = "finalize" -> 6
    [] pc = "result" -> 7
    [] OTHER -> 8

\* the chunk ordinals of a sequence of vector ids ascend
Ascending(ids) ==
  \A k \in 1..(Len(ids) - 1) : ordinal(ids[k]) < ordinal(ids[k + 1])

\* C22: within a Job the stages run in the order extraction, chunking,
\* tagging, batches, and the batches are submitted in ascending chunk
\* order; 25 is written only when extraction has returned (the Job is past
\* the extraction stage and extraction did not raise), and 50 only when the
\* chunk records are built (the Job is past tagging, with at least one chunk
\* record or with its run already ended).
C22_StagesOrdered ==
  [][\A j \in JobIds :
       /\ StageNo(task'[j].pc) >= StageNo(task[j].pc)
       /\ (task[j].pc \in {"extract", "chunk", "tag"} /\ task'[j] # task[j])
             => task'[j].pc \in {"result"} \cup
                   (CASE task[j].pc = "extract" -> {"chunk"}
                      [] task[j].pc = "chunk" -> {"tag"}
                      [] OTHER -> {"batch", "finalize"})
       /\ (task[j].pc = "batch" /\ StepOf(j)) =>
             /\ task'[j].batch_idx \in {task[j].batch_idx,
                                       task[j].batch_idx + batch_size}
             /\ Ascending(task'[j].vector_ids)
       /\ 25 \in SeqRange(progress_log'[j]) =>
             /\ StageNo(task'[j].pc) >= StageNo("chunk")
             /\ task'[j].stage_error # "extract"
       /\ 50 \in SeqRange(progress_log'[j]) =>
             /\ StageNo(task'[j].pc) >= StageNo("batch")
             /\ task'[j].stage_error = ""
             /\ task'[j].pc \in {"batch", "finalize"} => task'[j].num_chunks > 0
    ]_vars

\* a Job got through both batches: its row holds the ids of all chunks, and
\* 25 and 50 were written
C22_Witness ==
  \E j \in JobIds :
    /\ db[j].exists
    /\ Len(db[j].vector_ids) = MaxChunks
    /\ {25, 50} \subseteq SeqRange(progress_log[j])

\* the number of documents of the question that meet the threshold
Qualifying ==
  Cardinality({k \in 1..Len(rag.documents.items) :
                 rag.documents.items[k] >= min_relevance_score})

\* the tag the count of qualifying documents stands for
TagOfCount == IF Qualifying = 0 THEN "low"
              ELSE IF Qualifying = 1 THEN "medium" ELSE "high"

\* auto inspects the tag: LangChain mode, documents given, no marker
AutoInspectsTag ==
  /\ rag.pc = "answered" /\ ~rag.railway_mode /\ rag.strategy = "auto"
  /\ DocsGiven /\ rag.question \notin SpecificQuestions

\* C23: the relevance tag of generate_answer_from_docs is low, medium or
\* high, as the count of documents meeting the threshold is 0, 1 or at
\* least 2; with count 0 the answer is null and no generation call is made;
\* and where auto inspects the tag it escalates to hybrid exactly when the
\* count is 0 (the tag is low).
C23_TagByCount ==
  /\ rag.pc = "doc_returned" =>
       /\ rag.result.relevance = TagOfCount
       /\ Qualifying = 0 => rag.result.answer = None /\ rag.calls = <<>>
       /\ Qualifying > 0 => rag.calls = <<"doc">>
  /\ AutoInspectsTag =>
       (rag.result.strategy_used = "hybrid" <=> Qualifying = 0)

\* the call of generate_answer_from_docs raised: documents is None, or the
\* generation call raised
DocCallRaised ==
  \/ rag.documents.is_none
  \/ Qualifying > 0 /\ Met(1) = "raises"

\* C23, amended: the tag is error, with a null answer, when the call raised;
\* otherwise it is given by the count as stated; and where auto inspects the
\* tag it escalates to hybrid exactly when the tag is low or error.
C23_TagByCount_OrError ==
  /\ rag.pc = "doc_returned" =>
       /\ rag.result.relevance = IF DocCallRaised THEN "error" ELSE TagOfCount
       /\ DocCallRaised => rag.result.answer = None
       /\ Qualifying = 0 => rag.result.answer = None /\ rag.calls = <<>>
       /\ (Qualifying > 0 /\ ~rag.documents.is_none) => rag.calls = <<"doc">>
  /\ AutoInspectsTag =>
       (rag.result.strategy_used = "hybrid" <=>
          (Qualifying = 0 \/ Met(1) = "raises"))

\* one qualifying document among two: the tag is medium after one call
C23_Witness ==
  /\ rag.pc = "doc_returned"
  /\ rag.documents.items = <<4, 5>>
  /\ rag.calls = <<"doc">> /\ rag.outs = <<"text">>
  /\ rag.result.relevance = "medium"

\* C24: in LangChain mode, a result of source type hybrid reports as
\* sources_used the number of documents in the hybrid prompt, min(3, n) for
\* n documents given, and a docs_only result made by the document call
\* reports the count of documents meeting the threshold.
C24_SourcesUsedIsContext ==
  (rag.pc \in {"returned", "answered"} /\ ~rag.railway_mode) =>
    /\ rag.result.source_type = "hybrid" =>
         rag.result.sources_used = Len(hybrid_context(rag.documents))
    /\ rag.result.relevance \in {"medium", "high"} =>
         rag.result.sources_used = Qualifying

\* C25: once the index handle is dropped (vectorstore is None) it stays
\* dropped and no step adds a vector to the index; a Job that reaches the
\* choice between batch loop and text-only mode afterwards skips the loop
\* with no vector ids, and unless a fault of the database intervenes its row
\* ends completed with an empty list of vector ids; a Job inside the batch
\* loop adds no further id, leaves the loop without the failure result, and
\* its run ends with the success result carrying the ids it had.
C25_DisabledIndexStaysUnused ==
  [][~vectorstore =>
       /\ ~vectorstore'
       /\ index' = index
       /\ \A j \in JobIds :
            /\ (task[j].pc = "tag" /\ StepOf(j)) =>
                  /\ task'[j].pc = "finalize"
                  /\ task'[j].vector_ids = <<>>
                  /\ task'[j].degraded = "no_index"
            /\ (task[j].pc = "batch" /\ StepOf(j)) =>
                  /\ task'[j].pc \in {"batch", "finalize"}
                  /\ task'[j].vector_ids = task[j].vector_ids
            /\ (task[j].pc = "finalize" /\ StepOf(j)) =>
                  /\ task'[j].result.success
                  /\ task'[j].result.vector_ids = task[j].vector_ids
            /\ (task'[j].pc = "done" /\ task'[j].degraded = "no_index"
                  /\ ~task'[j].db_fault /\ db'[j].exists) =>
                  /\ db'[j].processing_status = "completed"
                  /\ ~db'[j].vector_ids_null
                  /\ db'[j].vector_ids = <<>>
    ]_vars

\* one Job stored a batch and then lost the index on its second batch; a Job
\* that came to the choice afterwards completed without vector ids
C25_Witness ==
  \E a, b \in JobIds :
    /\ a # b
    /\ task[a].degraded = "retries_exhausted" /\ vector_id(a, 0) \in index
    /\ task[b].degraded = "no_index" /\ task[b].pc = "done"
    /\ db[b].exists /\ db[b].processing_status = "completed"
    /\ db[b].vector_ids = <<>>

\* the run of Job j stored every batch and its row was completed
FullyIndexed(j) ==
  /\ db[j].exists /\ db[j].processing_status = "completed"
  /\ task[j].pc = "done" /\ task[j].degraded = ""

\* the vector ids held for Job j: by its task and by its row
HeldIds(j) ==
  SeqRange(task[j].vector_ids) \cup SeqRange(task[j].result.vector_ids)
    \cup SeqRange(db[j].vector_ids)

\* C26: with either DocumentProcessor, the row of a fully indexed Job with n
\* chunks holds the n texts "<doc_id>_0" .. "<doc_id>_(n-1)" in chunk
\* order, no text twice, each of them stored in the index; and no vector id
\* held for one Job is held for another Job.
C26_VectorIdsExact ==
  /\ \A j \in JobIds :
       FullyIndexed(j) =>
         LET n == db[j].chunk_count
             ids == db[j].vector_ids
         IN /\ n > 0
            /\ ids = [k \in 1..n |-> str(j) \o <<"_">> \o str(k - 1)]
            /\ \A a, b \in 1..Len(ids) : a # b => ids[a] # ids[b]
            /\ SeqRange(ids) \subseteq index
  /\ \A i, j \in JobIds : i # j => HeldIds(i) \cap HeldIds(j) = {}

\* two fully indexed Jobs of the backend variant, one of them with a second
\* batch
C26_Witness ==
  /\ processor = "backend.DocumentProcessor"
  /\ \E a, b \in JobIds :
       /\ a # b /\ FullyIndexed(a) /\ FullyIndexed(b)
       /\ db[a].chunk_count > backend_batch_size

\* C27: a step of process_document of Job A (its progress updates) leaves
\* the progress record of every other Job as it was, and when a callback was
\* registered for A the record written is A's: every step outside the batch
\* loop makes an update and changes A's record.
C27_ProgressUpdatesOwnRecord ==
  [][\A a \in JobIds :
       (InProcessDocument(task[a]) /\ StepOf(a)) =>
          /\ \A b \in JobIds \ {a} : progress_store'[b] = progress_store[b]
          /\ task[a].pc # "batch" => progress_store'[a] # progress_store[a]
    ]_vars

\* the answer of the query was made by its last generation call, the prompt
\* of that call held at least one retrieved document, and the call gave an
\* answer (neither an apology for an error of the API nor an exception)
AnswerMadeFromDocuments ==
  /\ rag.calls # <<>>
  /\ DocsGiven
  /\ rag.calls[Len(rag.calls)] \in {"doc", "hybrid", "railway"}
  /\ Met(Len(rag.calls)) \in {"text", "empty"}

\* C28: the response of a query reports is_from_uploaded_docs = true only
\* when the answer was made by a generation call whose prompt held at least
\* one retrieved document; answers from general knowledge and error or
\* apology answers report false.
C28_FromUploadedDocsOnlyWithDocs ==
  (rag.pc = "answered" /\ rag.is_from_uploaded_docs) => AnswerMadeFromDocuments

\* the vector ids of Job j that add_documents stored
Added(j) == index \cap ids_of(j)

\* C29: with either DocumentProcessor, when the ingestion of a Job has ended
\* and its row exists, every vector id of the Job that was stored in the
\* index is in the vector_ids of the row, whether the Job completed or
\* failed.
C29_AddedIdsRecorded ==
  \A j \in JobIds :
    (task[j].pc = "done" /\ db[j].exists) =>
      Added(j) \subseteq SeqRange(db[j].vector_ids)

\* C30: while a fully indexed Job is completed, the retrieval of
\* query_documents (search_documents over the completed Jobs) returns
\* chunks of that Job, whatever happened to other Jobs.
C30_RetrievalSurvivesOtherJobs ==
  \A j \in JobIds :
    FullyIndexed(j) =>
      search_documents(vectorstore, index, completed_docs) \cap ids_of(j) # {}

====
